---- MODULE Spec2Model ----
(***************************************************************************)
(* Model of Model_basis.py: a polymer on the 2D square lattice, its        *)
(* self-avoiding-walk validator, the straight-chain initializer and the    *)
(* command-line entry point.                                               *)
(*                                                                         *)
(* A lattice point (x, y) is the tuple <<x, y>>: Python p[0] is p[1] here  *)
(* and p[1] is p[2].  A Python list is a sequence; a Python index i is     *)
(* position i + 1.  Index VALUES reported by the program (bond pairs,      *)
(* the indices of a broken bond) keep their 0-based Python values.         *)
(* A call's outcome is a record: kind = "ok" with the returned value, or   *)
(* kind = the name of the exception raised.                                *)
(***************************************************************************)
EXTENDS Integers, Sequences, FiniteSets

\* ---- bounds of the model ----
MaxX == 3
MaxY == 0
MaxLen == 3
MaxN == 13

\* ---- program constants ----
DefaultN == 20
PreviewLen == 10
EllipsisN == 11

Points == ((0 - 1)..MaxX) \X ((0 - 1)..MaxY)
CoordSeqs == UNION {[1..n -> Points] : n \in 0..MaxLen}
NArgs == ((0 - 2)..MaxN) \cup {DefaultN}

VARIABLES op, poly, argN, argP, ret, out
vars == <<op, poly, argN, argP, ret, out>>

\* ---- Python built-ins used by the program ----
abs(x) == IF x < 0 THEN 0 - x ELSE x

\* range(n): 0, 1, ..., n-1; empty when n <= 0
range(n) == [k \in 1..(IF n > 0 THEN n ELSE 0) |-> k - 1]

\* list indexing is defined for -len <= i < len, IndexError otherwise
InRange(xs, i) == (0 - Len(xs)) <= i /\ i < Len(xs)
getitem(xs, i) == IF i >= 0 THEN xs[i + 1] ELSE xs[Len(xs) + i + 1]

\* xs[:n] for n >= 0
slice(xs, n) == SubSeq(xs, 1, IF n < Len(xs) THEN n ELSE Len(xs))

\* min(xs) / max(xs) of a non-empty list: left-to-right scan keeping the best
RECURSIVE minFrom(_, _, _)
minFrom(xs, k, best) ==
  IF k > Len(xs) THEN best
  ELSE minFrom(xs, k + 1, IF xs[k] < best THEN xs[k] ELSE best)
pymin(xs) == minFrom(xs, 2, xs[1])

RECURSIVE maxFrom(_, _, _)
maxFrom(xs, k, best) ==
  IF k > Len(xs) THEN best
  ELSE maxFrom(xs, k + 1, IF xs[k] > best THEN xs[k] ELSE best)
pymax(xs) == maxFrom(xs, 2, xs[1])

\* ---- geometry primitives ----
manhattan(a, b) == abs(a[1] - b[1]) + abs(a[2] - b[2])

neighbors_2d_swapped(p) ==
  <<<<p[1] - 1, p[2]>>, <<p[1] + 1, p[2]>>, <<p[1], p[2] + 1>>, <<p[1], p[2] - 1>>>>
neighbors_2d(p) ==
  <<<<p[1] + 1, p[2]>>, <<p[1] - 1, p[2]>>, <<p[1], p[2] + 1>>, <<p[1], p[2] - 1>>>>

\* ---- Polymer2D ----
Overlap == [kind |-> "ValueError", msg |-> "overlap"]
BrokenBond(cs, i) ==
  [kind |-> "ValueError", msg |-> "broken bond",
   i |-> i, j |-> i + 1, a |-> cs[i + 1], b |-> cs[i + 2]]

\* the connectivity loop, from Python index i on
RECURSIVE validateScan_shifted(_, _)
validateScan_shifted(cs, i) ==
  IF i >= Len(cs) - 1 THEN [kind |-> "ok"]
  ELSE IF manhattan(cs[i + 1], cs[i + 2]) # 1
       THEN [kind |-> "ValueError", msg |-> "broken bond",
             i |-> i + 1, j |-> i + 2, a |-> cs[i + 1], b |-> cs[i + 2]]
       ELSE validateScan_shifted(cs, i + 1)
RECURSIVE validateScan(_, _)
validateScan(cs, i) ==
  IF i >= Len(cs) - 1 THEN [kind |-> "ok"]
  ELSE IF manhattan(cs[i + 1], cs[i + 2]) # 1 THEN BrokenBond(cs, i)
       ELSE validateScan(cs, i + 1)

validate_noOverlapCheck(cs) == validateScan(cs, 0)
validate_bondsFirst(cs) ==
  LET r == validateScan(cs, 0)
  IN IF r.kind # "ok" THEN r
     ELSE IF Cardinality({cs[k] : k \in 1..Len(cs)}) # Len(cs) THEN Overlap
     ELSE [kind |-> "ok"]
validate(cs) ==
  IF Cardinality({cs[k] : k \in 1..Len(cs)}) # Len(cs) THEN Overlap
  ELSE validateScan(cs, 0)

bonds_perMonomer(cs) ==
  LET r == range(Len(cs)) IN [k \in 1..Len(r) |-> <<r[k], r[k] + 1>>]
bonds(cs) ==
  LET r == range(Len(cs) - 1) IN [k \in 1..Len(r) |-> <<r[k], r[k] + 1>>]

Report(cs, xs, ys) ==
  [kind |-> "ok", N |-> Len(cs),
   first |-> getitem(cs, 0), last |-> getitem(cs, 0 - 1),
   xmin |-> pymin(xs), xmax |-> pymax(xs),
   ymin |-> pymin(ys), ymax |-> pymax(ys)]

summary_lastIsFirst(cs) ==
  LET xs == [k \in 1..Len(cs) |-> cs[k][1]]
      ys == [k \in 1..Len(cs) |-> cs[k][2]]
  IN IF ~InRange(cs, 0) \/ ~InRange(cs, 0 - 1) THEN [kind |-> "IndexError"]
     ELSE IF Len(xs) = 0 \/ Len(ys) = 0 THEN [kind |-> "ValueError", msg |-> "empty min"]
     ELSE [Report(cs, xs, ys) EXCEPT !.last = getitem(cs, 0)]
summary_guardEmpty(cs) ==
  LET xs == [k \in 1..Len(cs) |-> cs[k][1]]
      ys == [k \in 1..Len(cs) |-> cs[k][2]]
  IN IF Len(cs) = 0
     THEN [kind |-> "ok", N |-> 0, first |-> <<0, 0>>, last |-> <<0, 0>>,
           xmin |-> 0, xmax |-> 0, ymin |-> 0, ymax |-> 0]
     ELSE Report(cs, xs, ys)
summary(cs) ==
  LET xs == [k \in 1..Len(cs) |-> cs[k][1]]
      ys == [k \in 1..Len(cs) |-> cs[k][2]]
  IN IF ~InRange(cs, 0) \/ ~InRange(cs, 0 - 1) THEN [kind |-> "IndexError"]
     ELSE IF Len(xs) = 0 \/ Len(ys) = 0 THEN [kind |-> "ValueError", msg |-> "empty min"]
     ELSE Report(cs, xs, ys)

\* ---- initializer ----
straight_chain_fromOne(N) ==
  LET r == range(N)
      coords == [k \in 1..Len(r) |-> <<r[k] + 1, 0>>]
      v == validate(coords)
  IN IF v.kind # "ok" THEN v ELSE [kind |-> "ok", val |-> coords]
straight_chain(N) ==
  LET r == range(N)
      coords == [k \in 1..Len(r) |-> <<r[k], 0>>]
      v == validate(coords)
  IN IF v.kind # "ok" THEN v ELSE [kind |-> "ok", val |-> coords]

\* ---- entry point ----
\* the bond preview line: the first 10 bonds, then "..." or ""
bondsLine_atTen(cs) ==
  [line |-> "bonds", shown |-> slice(bonds(cs), PreviewLen),
   marker |-> IF Len(cs) > PreviewLen THEN "..." ELSE ""]
bondsLine(cs) ==
  [line |-> "bonds", shown |-> slice(bonds(cs), PreviewLen),
   marker |-> IF Len(cs) > EllipsisN THEN "..." ELSE ""]

\* main with --N parsed to N: the lines printed, and the exception (if any)
\* that ends the run
main(N) ==
  LET sc == straight_chain(N)
      header == [line |-> "header"]
  IN IF sc.kind # "ok" THEN [out |-> <<>>, exc |-> sc.kind]
     ELSE LET s == summary(sc.val)
          IN IF s.kind # "ok" THEN [out |-> <<header>>, exc |-> s.kind]
             ELSE [out |-> <<header, [line |-> "summary", report |-> s],
                             bondsLine(sc.val), [line |-> "Validation: OK "]>>,
                   exc |-> "ok"]

\* ---- the state machine: calls made on the module ----
NoPoly == [kind |-> "none"]
Polymer2D(cs) == [kind |-> "Polymer2D", coords |-> cs]

Init ==
  /\ op = "start"
  /\ poly = NoPoly
  /\ argN = DefaultN
  /\ argP = <<0, 0>>
  /\ ret = [kind |-> "none"]
  /\ out = <<>>

\* Polymer2D(coords): construction does not validate
Construct(cs) ==
  /\ op = "start"
  /\ op' = "Polymer2D"
  /\ poly' = Polymer2D(cs)
  /\ ret' = [kind |-> "ok"]
  /\ UNCHANGED <<argN, argP, out>>

Validate ==
  /\ poly.kind = "Polymer2D"
  /\ op' = "validate"
  /\ ret' = validate(poly.coords)
  /\ UNCHANGED <<poly, argN, argP, out>>

Bonds ==
  /\ poly.kind = "Polymer2D"
  /\ op' = "bonds"
  /\ ret' = [kind |-> "ok", val |-> bonds(poly.coords)]
  /\ UNCHANGED <<poly, argN, argP, out>>

Summary ==
  /\ poly.kind = "Polymer2D"
  /\ op' = "summary"
  /\ ret' = summary(poly.coords)
  /\ UNCHANGED <<poly, argN, argP, out>>

StraightChain(N) ==
  /\ op = "start"
  /\ op' = "straight_chain"
  /\ argN' = N
  /\ ret' = straight_chain(N)
  /\ poly' = IF ret'.kind = "ok" THEN Polymer2D(ret'.val) ELSE poly
  /\ UNCHANGED <<argP, out>>

Neighbors(p) ==
  /\ op = "start"
  /\ op' = "neighbors_2d"
  /\ argP' = p
  /\ ret' = [kind |-> "ok", val |-> neighbors_2d(p)]
  /\ UNCHANGED <<poly, argN, out>>

Main(N) ==
  /\ op = "start"
  /\ op' = "main"
  /\ argN' = N
  /\ out' = main(N).out
  /\ ret' = [kind |-> main(N).exc]
  /\ UNCHANGED <<poly, argP>>

Next ==
  \/ \E cs \in CoordSeqs : Construct(cs)
  \/ Validate
  \/ Bonds
  \/ Summary
  \/ \E N \in NArgs : StraightChain(N)
  \/ \E p \in Points : Neighbors(p)
  \/ \E N \in NArgs : Main(N)

Spec == Init /\ [][Next]_vars

\* ---- properties ----
\* stated independently of the code's set-cardinality and loop formulations
PairwiseDistinct(cs) == \A i, j \in 1..Len(cs) : i # j => cs[i] # cs[j]
\* a and b differ by exactly one unit in exactly one axis
UnitStep(a, b) ==
  \/ a[2] = b[2] /\ (a[1] = b[1] + 1 \/ b[1] = a[1] + 1)
  \/ a[1] = b[1] /\ (a[2] = b[2] + 1 \/ b[2] = a[2] + 1)
AllBondsUnit(cs) == \A k \in 1..(Len(cs) - 1) : UnitStep(cs[k], cs[k + 1])
HasPoly == poly.kind = "Polymer2D"

\* C1: validate returns normally exactly when the coordinates are pairwise
\* distinct and every consecutive pair is at Manhattan distance 1; otherwise
\* it raises one ValueError.
C1_ValidateIffSAW ==
  op = "validate" =>
    /\ ret.kind \in {"ok", "ValueError"}
    /\ ret.kind = "ok" <=> (PairwiseDistinct(poly.coords) /\ AllBondsUnit(poly.coords))
C1_Witness ==
  /\ op = "validate" /\ ret.kind = "ok"
  /\ Len(poly.coords) = 3 /\ poly.coords[3][1] < 0

\* C2: a sequence with a duplicate position fails with the overlap violation,
\* never the bond violation, even when a consecutive pair is not a unit step.
C2_OverlapFirst ==
  (op = "validate" /\ ~PairwiseDistinct(poly.coords)) =>
    (ret.kind = "ValueError" /\ ret.msg = "overlap")
C2_Witness ==
  /\ op = "validate"
  /\ poly.coords = <<<<0, 0>>, <<1, 0>>, <<1, 0>>>>
  /\ ~AllBondsUnit(poly.coords)
  /\ ret.kind = "ValueError" /\ ret.msg = "overlap"

\* C3: with all positions distinct and some consecutive pair not a unit step,
\* validate fails with the bond violation for the smallest such index i,
\* reporting (i, i+1) and coords[i], coords[i+1].
C3_FirstBrokenBond ==
  (op = "validate" /\ PairwiseDistinct(poly.coords) /\ ~AllBondsUnit(poly.coords)) =>
    /\ ret.kind = "ValueError" /\ ret.msg = "broken bond"
    /\ ret.i \in 0..(Len(poly.coords) - 2)
    /\ ret.j = ret.i + 1
    /\ ~UnitStep(poly.coords[ret.i + 1], poly.coords[ret.i + 2])
    /\ \A k \in 0..(ret.i - 1) : UnitStep(poly.coords[k + 1], poly.coords[k + 2])
    /\ ret.a = poly.coords[ret.i + 1]
    /\ ret.b = poly.coords[ret.i + 2]
C3_Witness ==
  /\ op = "validate"
  /\ poly.coords = <<<<0, 0>>, <<1, 0>>, <<3, 0>>>>
  /\ ret.kind = "ValueError" /\ ret.msg = "broken bond"
  /\ ret.i = 1 /\ ret.j = 2

\* C4: for N >= 1, straight_chain(N) returns (its inner validate does not
\* raise) a polymer of exactly N monomers with coords[i] = (i, 0).
C4_StraightChain ==
  (op = "straight_chain" /\ argN >= 1) =>
    /\ ret.kind = "ok"
    /\ Len(ret.val) = argN
    /\ \A i \in 0..(argN - 1) : ret.val[i + 1] = <<i, 0>>
    /\ poly = Polymer2D(ret.val)
C4_Witness ==
  op = "straight_chain" /\ argN = 5 /\ ret.kind = "ok" /\ Len(ret.val) = 5

\* C5: for N <= 0, straight_chain(N) is rejected with an error and returns no
\* (empty) polymer.
C5_RejectNonPositive ==
  (op = "straight_chain" /\ argN <= 0) => ret.kind # "ok"

\* C6 (as stated): for every valid polymer of any length N, bonds() has length
\* exactly N - 1 and its k-th element is (k, k+1).
C6_BondsOriginal ==
  (op = "bonds" /\ validate(poly.coords).kind = "ok") =>
    /\ Len(ret.val) = Len(poly.coords) - 1
    /\ \A k \in 0..(Len(ret.val) - 1) : ret.val[k + 1] = <<k, k + 1>>
\* C6 (amended): for every valid polymer with N >= 1, bonds() has length
\* exactly N - 1 and its k-th element is (k, k+1); for the valid empty polymer
\* (N = 0) bonds() is empty.
C6_BondsAmended ==
  (op = "bonds" /\ validate(poly.coords).kind = "ok") =>
    /\ Len(poly.coords) >= 1 => Len(ret.val) = Len(poly.coords) - 1
    /\ Len(poly.coords) = 0 => Len(ret.val) = 0
    /\ \A k \in 0..(Len(ret.val) - 1) : ret.val[k + 1] = <<k, k + 1>>
C6_Witness ==
  /\ op = "bonds" /\ validate(poly.coords).kind = "ok"
  /\ Len(poly.coords) = 3 /\ ret.val = <<<<0, 1>>, <<1, 2>>>>

PrintedBonds == op = "main" /\ Len(out) >= 3 /\ out[3].line = "bonds"
FirstBonds(n) == [k \in 1..n |-> <<k - 1, k>>]
MinOf(a, b) == IF a < b THEN a ELSE b

\* C7 (as stated): the bond preview shows the first min(10, N-1) bonds and the
\* ellipsis marker is printed iff more than 11 bonds exist.
C7_PreviewOriginal ==
  PrintedBonds =>
    /\ out[3].shown = FirstBonds(MinOf(10, argN - 1))
    /\ out[3].marker = "..." <=> (argN - 1 > 11)
\* C7 (amended): the bond preview shows the first min(10, N-1) bonds and the
\* ellipsis marker is printed iff more than 10 bonds exist (N > 11); the
\* preview is printed for every N >= 1.
C7_PreviewAmended ==
  /\ (op = "main" /\ argN >= 1) => PrintedBonds
  /\ PrintedBonds =>
       /\ out[3].shown = FirstBonds(MinOf(10, argN - 1))
       /\ out[3].marker \in {"...", ""}
       /\ out[3].marker = "..." <=> (argN - 1 > 10)
C7_Witness ==
  /\ PrintedBonds /\ argN = 12
  /\ Len(out[3].shown) = 10 /\ out[3].marker = "..."

\* C8: for every polymer with N >= 1 (valid or not) summary() succeeds and
\* reports N, coords[0], coords[N-1] and the inclusive x and y ranges over all
\* coordinates; straight_chain(5) gives N=5, (0,0), (4,0), [0,4], [0,0].
IsMinOf(m, S) == m \in S /\ \A v \in S : m <= v
IsMaxOf(m, S) == m \in S /\ \A v \in S : m >= v
C8_Summary ==
  (op = "summary" /\ Len(poly.coords) >= 1) =>
    LET cs == poly.coords
        X == {cs[k][1] : k \in 1..Len(cs)}
        Y == {cs[k][2] : k \in 1..Len(cs)}
    IN /\ ret.kind = "ok"
       /\ ret.N = Len(cs)
       /\ ret.first = cs[1]
       /\ ret.last = cs[Len(cs)]
       /\ IsMinOf(ret.xmin, X) /\ IsMaxOf(ret.xmax, X)
       /\ IsMinOf(ret.ymin, Y) /\ IsMaxOf(ret.ymax, Y)
C8_Witness ==
  /\ op = "summary" /\ argN = 5
  /\ ret.kind = "ok" /\ ret.N = 5
  /\ ret.first = <<0, 0>> /\ ret.last = <<4, 0>>
  /\ ret.xmin = 0 /\ ret.xmax = 4 /\ ret.ymin = 0 /\ ret.ymax = 0

\* C9: summary() on the empty polymer fails with an error and no report,
\* though the empty polymer passes validate; so main with N = 0 ends in an
\* error before the validation confirmation line is printed.
C9_EmptySummaryFails ==
  /\ (op = "summary" /\ Len(poly.coords) = 0) => ret.kind \notin {"ok", "none"}
  /\ (op = "validate" /\ Len(poly.coords) = 0) => ret.kind = "ok"
  /\ (op = "main" /\ argN = 0) =>
       /\ ret.kind \notin {"ok", "none"}
       /\ \A k \in 1..Len(out) : out[k].line \notin {"summary", "Validation: OK "}
C9_Witness ==
  op = "main" /\ argN = 0 /\ ret.kind = "IndexError" /\ Len(out) = 1

\* C10: neighbors_2d(p) returns exactly four pairwise-distinct points in the
\* order (x+1,y), (x-1,y), (x,y+1), (x,y-1), which are exactly the lattice
\* points at Manhattan distance 1 from p.
Around(p) == ((p[1] - 2)..(p[1] + 2)) \X ((p[2] - 2)..(p[2] + 2))
C10_Neighbors ==
  op = "neighbors_2d" =>
    LET p == argP
        r == ret.val
    IN /\ Len(r) = 4
       /\ PairwiseDistinct(r)
       /\ r[1] = <<p[1] + 1, p[2]>> /\ r[2] = <<p[1] - 1, p[2]>>
       /\ r[3] = <<p[1], p[2] + 1>> /\ r[4] = <<p[1], p[2] - 1>>
       /\ {r[k] : k \in 1..4} = {q \in Around(p) : manhattan(p, q) = 1}
C10_Witness ==
  /\ op = "neighbors_2d" /\ argP = <<0, 0>>
  /\ ret.val = <<<<1, 0>>, <<0 - 1, 0>>, <<0, 1>>, <<0, 0 - 1>>>>

====
